---- MODULE Spec2Model ----
(***************************************************************************)
(* Model of the deploy webhook service (main.go).                          *)
(*                                                                         *)
(* Strings that the program inspects character by character (paths,        *)
(* project names, archive entry names) are sequences of one-character      *)
(* strings, so that filepath.Join, filepath.Abs and strings.HasPrefix are  *)
(* computed as the Go library computes them.                               *)
(***************************************************************************)
EXTENDS Integers, Sequences, FiniteSets, TLC

VARIABLES
    fs,      \* the file system: cleaned absolute path -> [kind, bytes]
    frame,   \* one deployHandler invocation per connection: its locals
    call     \* a call of computeFinalPath on its own (SpecPath)

vars == <<fs, frame, call>>

----------------------------------------------------------------------------
(* Strings and paths (path/filepath on Unix)                               *)

Sep == "/"

\* strings.HasPrefix(s, prefix)
HasPrefix(s, prefix) ==
    /\ Len(s) >= Len(prefix)
    /\ SubSeq(s, 1, Len(prefix)) = prefix

\* strings.HasSuffix(s, suffix)
HasSuffix(s, suffix) ==
    /\ Len(s) >= Len(suffix)
    /\ SubSeq(s, Len(s) - Len(suffix) + 1, Len(s)) = suffix

\* filepath.IsAbs
IsAbs(p) == Len(p) > 0 /\ p[1] = Sep

\* The elements of a path between separators, empty elements dropped.
RECURSIVE SplitFrom(_, _, _)
SplitFrom(p, i, cur) ==
    IF i > Len(p)
    THEN IF cur = <<>> THEN <<>> ELSE <<cur>>
    ELSE IF p[i] = Sep
         THEN IF cur = <<>>
              THEN SplitFrom(p, i + 1, <<>>)
              ELSE <<cur>> \o SplitFrom(p, i + 1, <<>>)
         ELSE SplitFrom(p, i + 1, Append(cur, p[i]))

Elements(p) == SplitFrom(p, 1, <<>>)

Dot == <<".">>
DotDot == <<".", ".">>

\* The lexical processing of filepath.Clean on the elements of a path:
\* "." is dropped, ".." removes the element before it, ".." at the root is
\* dropped, leading ".." of a relative path are kept.
RECURSIVE CleanElements(_, _, _)
CleanElements(elems, rooted, out) ==
    IF elems = <<>>
    THEN out
    ELSE LET e == Head(elems)
             rest == Tail(elems)
         IN  IF e = Dot
             THEN CleanElements(rest, rooted, out)
             ELSE IF e = DotDot
                  THEN IF out # <<>> /\ out[Len(out)] # DotDot
                       THEN CleanElements(rest, rooted, SubSeq(out, 1, Len(out) - 1))
                       ELSE IF rooted
                            THEN CleanElements(rest, rooted, out)
                            ELSE CleanElements(rest, rooted, Append(out, e))
                  ELSE CleanElements(rest, rooted, Append(out, e))

RECURSIVE JoinElements(_)
JoinElements(elems) ==
    IF elems = <<>>
    THEN <<>>
    ELSE IF Len(elems) = 1
         THEN Head(elems)
         ELSE Head(elems) \o <<Sep>> \o JoinElements(Tail(elems))

\* filepath.Clean
Clean(p) ==
    LET rooted == IsAbs(p)
        out == CleanElements(Elements(p), rooted, <<>>)
    IN  IF rooted
        THEN <<Sep>> \o JoinElements(out)
        ELSE IF out = <<>> THEN Dot ELSE JoinElements(out)

\* filepath.Join(a, b): empty elements are ignored, the result is cleaned.
Join(a, b) ==
    IF a = <<>> /\ b = <<>>
    THEN <<>>
    ELSE IF a = <<>>
         THEN Clean(b)
         ELSE IF b = <<>>
              THEN Clean(a)
              ELSE Clean(a \o <<Sep>> \o b)

\* The working directory of the service process.
Getwd == <<"/", "o", "p", "t">>

\* filepath.Abs
Abs(p) == IF IsAbs(p) THEN Clean(p) ELSE Join(Getwd, p)

\* filepath.Dir of a cleaned absolute path.
Dir(p) ==
    LET e == Elements(p)
    IN  IF e = <<>>
        THEN <<Sep>>
        ELSE <<Sep>> \o JoinElements(SubSeq(e, 1, Len(e) - 1))

\* p is dir itself or lies below it, by path elements (both cleaned, absolute).
IsWithin(p, dir) ==
    LET pe == Elements(p)
        de == Elements(dir)
    IN  /\ Len(pe) >= Len(de)
        /\ SubSeq(pe, 1, Len(de)) = de

----------------------------------------------------------------------------
(* The area table (areas.json) and computeFinalPath                        *)

\* "/h/r" and "/h/w" stand for /home/actions/repos and /home/actions/swiftlink.
ReposBase == <<"/", "h", "/", "r">>
SwiftlinkBase == <<"/", "h", "/", "w">>

areas == [a \in {"repos", "swiftlink"} |->
             IF a = "repos" THEN ReposBase ELSE SwiftlinkBase]

NoPath == <<>>

ErrUnknownArea == "unknown area alias"
ErrEscape == "project path escapes area base"

\* Contained without the test.
ContainedUnchecked(absDest, absBase) == TRUE

\* The containment test of computeFinalPath, line 160.
Contained(absDest, absBase) == HasPrefix(absDest, absBase)

computeFinalPath(area, project) ==
    IF area \notin DOMAIN areas
    THEN [path |-> NoPath, err |-> ErrUnknownArea]
    ELSE LET base == areas[area]
             dest == Join(base, project)
             absDest == Abs(dest)
             absBase == Abs(base)
         IN  IF ~Contained(absDest, absBase)
             THEN [path |-> NoPath, err |-> ErrEscape]
             ELSE [path |-> absDest, err |-> "nil"]

----------------------------------------------------------------------------
(* File contents                                                           *)

Raw(id) == [fmt |-> "raw", id |-> id]

\* A file of length zero (a file just created or truncated).
Empty == Raw("")

\* What io.Copy leaves in the file when it fails part way.
Partial == Raw("partial")

\* The previous deployment's page.
OldIndex == Raw("old index")

DotTarGz == <<".", "t", "a", "r", ".", "g", "z">>

\* site.tar.gz as the CI builds it: a directory, a page in it, a symlink.
SiteTarGz ==
    [fmt |-> "targz",
     entries |-> << [Name |-> <<"d">>, Typeflag |-> "dir", body |-> Empty],
                    [Name |-> <<"d", "/", "i">>, Typeflag |-> "reg",
                     body |-> Raw("new index")],
                    [Name |-> <<"l">>, Typeflag |-> "symlink", body |-> Empty] >>]

\* The artifact as the host exports it: a zip holding the uploaded tarball.
GoodZip ==
    [fmt |-> "zip",
     entries |-> << [Name |-> <<"n">>, body |-> Raw("notes")],
                    [Name |-> <<"s">> \o DotTarGz, body |-> SiteTarGz] >>]

\* An artifact that holds no tarball.
PlainZip ==
    [fmt |-> "zip", entries |-> << [Name |-> <<"n">>, body |-> Raw("notes")] >>]

----------------------------------------------------------------------------
(* The file system                                                         *)

DirNode == [kind |-> "dir", bytes |-> Empty]
FileNode(b) == [kind |-> "file", bytes |-> b]

Exists(f, p) == p \in DOMAIN f
IsDir(f, p) == Exists(f, p) /\ f[p].kind = "dir"
IsFile(f, p) == Exists(f, p) /\ f[p].kind = "file"

Root == <<Sep>>

\* os.TempDir()
TempDir == <<"/", "t", "m", "p">>

\* p and the directories above it, below the root.
Ancestors(p) ==
    LET e == Elements(p)
    IN  {<<Sep>> \o JoinElements(SubSeq(e, 1, n)) : n \in 1..Len(e)}

\* RemoveAll that does not descend: it removes what has nothing below it.
RemoveLeaves(f, p) ==
    [q \in {x \in DOMAIN f :
               ~(IsWithin(x, p) /\ \A y \in DOMAIN f : IsWithin(y, x) => y = x)} |->
        f[q]]

\* os.RemoveAll(p): p and everything below it; no error when p is absent.
RemoveAll(f, p) == [q \in {x \in DOMAIN f : ~IsWithin(x, p)} |-> f[q]]

\* os.MkdirAll(p): fails when p or a directory above it is a regular file.
MkdirAllFails(f, p) == \E q \in Ancestors(p) : IsFile(f, q)
MkdirAll(f, p) ==
    [q \in (DOMAIN f) \cup Ancestors(p) |-> IF q \in DOMAIN f THEN f[q] ELSE DirNode]

\* os.Create(p): open(p, O_RDWR|O_CREATE|O_TRUNC). An existing file is
\* truncated in place, a missing one is created empty.
CreateError(f, p) ==
    IF IsDir(f, p)
    THEN "is a directory"
    ELSE IF ~Exists(f, Dir(p))
         THEN "no such file or directory"
         ELSE IF ~IsDir(f, Dir(p))
              THEN "not a directory"
              ELSE "nil"
Create(f, p) == [q \in (DOMAIN f) \cup {p} |-> IF q = p THEN FileNode(Empty) ELSE f[q]]

\* A write of the whole of b through a descriptor opened on p. The write
\* reaches the file only while the name still leads to the file that was
\* opened ("open"); after an unlink it goes to a file no name leads to.
WriteFile(f, p, handle, b) ==
    IF handle = "open" THEN [f EXCEPT ![p] = FileNode(b)] ELSE f

\* os.Remove(p) of a regular file; an error (ignored by the caller) otherwise.
Remove(f, p) == IF IsFile(f, p) THEN [q \in (DOMAIN f) \ {p} |-> f[q]] ELSE f

\* The path a handler's open descriptor was opened on.
OpenPath(fm) ==
    IF fm.pc = "copy" THEN fm.tmpFile
    ELSE IF fm.pc = "copydest" THEN fm.dest
    ELSE <<>>

\* The descriptors of the other handlers after the files f2 no longer holds
\* were unlinked: a descriptor stays valid, its file has no name any more.
Unlinked(fr, f2) ==
    [c \in DOMAIN fr |->
        IF fr[c].outFile = "open" /\ ~Exists(f2, OpenPath(fr[c]))
        THEN [fr[c] EXCEPT !.outFile = "orphan"]
        ELSE fr[c]]

\* The tree at p: every path at or below p with its kind and bytes.
Tree(f, p) == [q \in {x \in DOMAIN f : IsWithin(x, p)} |-> f[q]]

----------------------------------------------------------------------------
(* Signatures (go-minisign)                                                *)

TrustedKey == "trusted key"

\* The decoded content of a .minisig file made with the trusted key over bytes.
SignatureOver(bytes) ==
    [base64 |-> TRUE, format |-> TRUE, keyId |-> TrustedKey, over |-> bytes]

\* A signature field that is not base64.
BadEncoding ==
    [base64 |-> FALSE, format |-> FALSE, keyId |-> TrustedKey, over |-> Empty]

NoSignature == BadEncoding

\* publicKey.Verify(data, sig): (valid, err)
MinisignVerify(pubKey, bytes, sig) ==
    IF pubKey # sig.keyId
    THEN [valid |-> FALSE, err |-> "incompatible key identifiers"]
    ELSE IF sig.over # bytes
         THEN [valid |-> FALSE, err |-> "invalid signature"]
         ELSE [valid |-> TRUE, err |-> "nil"]

\* verifySignature once the file is read: the error it returns, or "nil".
verifySignature(bytes, base64Sig, pubKey) ==
    IF ~base64Sig.base64
    THEN "invalid base64 signature"
    ELSE IF pubKey # TrustedKey
         THEN "invalid public key"
         ELSE IF ~base64Sig.format
              THEN "invalid signature format"
              ELSE LET v == MinisignVerify(pubKey, bytes, base64Sig)
                   IN  IF v.err # "nil"
                       THEN "signature verification error"
                       ELSE IF ~v.valid
                            THEN "signature verification failed"
                            ELSE "nil"

----------------------------------------------------------------------------
(* The container                                                           *)

NoBytes == Raw("none")

\* The index of the first entry of the zip whose name ends in ".tar.gz"
\* (0 when there is none): the loop of extractTarGzFromZip.
RECURSIVE FirstTarGz(_, _)
FirstTarGz(entries, i) ==
    IF i > Len(entries)
    THEN 0
    ELSE IF HasSuffix(entries[i].Name, DotTarGz)
         THEN i
         ELSE FirstTarGz(entries, i + 1)

\* extractTarGz, lines 287-320: the loop over the entries of the tarball.
RECURSIVE ExtractEntries(_, _, _)
ExtractEntries(f, entries, dest) ==
    IF entries = <<>>
    THEN [fs |-> f, err |-> "nil"]
    ELSE LET hdr == Head(entries)
             target == Join(dest, hdr.Name)
         IN  IF hdr.Typeflag = "dir"
             THEN IF MkdirAllFails(f, target)
                  THEN [fs |-> f, err |-> "not a directory"]
                  ELSE ExtractEntries(MkdirAll(f, target), Tail(entries), dest)
             ELSE IF hdr.Typeflag = "reg"
                  THEN IF MkdirAllFails(f, Dir(target))
                       THEN [fs |-> f, err |-> "not a directory"]
                       ELSE LET g == MkdirAll(f, Dir(target))
                            IN  IF CreateError(g, target) # "nil"
                                THEN [fs |-> g, err |-> CreateError(g, target)]
                                ELSE ExtractEntries(
                                         WriteFile(Create(g, target), target,
                                                   "open", hdr.body),
                                         Tail(entries), dest)
                  ELSE ExtractEntries(f, Tail(entries), dest)

\* extractTarGz(file, dest), lines 274-321. No caller in main.go.
extractTarGz(f, file, dest) ==
    IF ~IsFile(f, file)
    THEN [fs |-> f, err |-> "no such file or directory"]
    ELSE IF f[file].bytes.fmt # "targz"
         THEN [fs |-> f, err |-> "gzip: invalid header"]
         ELSE ExtractEntries(f, f[file].bytes.entries, dest)

----------------------------------------------------------------------------
(* Requests                                                                *)

\* The connections the server handles at the same time (net/http runs each
\* request's handler on its own goroutine).
Conns == {"c1", "c2"}

SiteProject == <<"s">>

Projects == {SiteProject}

Signatures == {SignatureOver(GoodZip), SignatureOver(SiteTarGz),
               SignatureOver(PlainZip), BadEncoding}

Payloads ==
    [Area : {"repos", "backup"}, Project : Projects, Owner : {"winlogon"},
     Repo : {"minechat"}, GitHubToken : {"", "ghx"}, Signature : Signatures]

NoPayload ==
    [Area |-> "", Project |-> <<>>, Owner |-> "", Repo |-> "",
     GitHubToken |-> "", Signature |-> NoSignature]

\* The status of a response, and the bodies the host streams with a 200.
StatusCodes == {200, 302, 404}
Bodies == {GoodZip, PlainZip}

\* The Location header of a 302: absent, a URL on the host of the first
\* request (or a subdomain of it), a URL on another host.
NoLocation == ""
Locations == {NoLocation, "same host", "other host"}

\* The redirects the model lets one client.Do follow.
MaxRedirects == 2

IdleFrame ==
    [pc |-> "idle", payload |-> NoPayload, dest |-> NoPath,
     tmpFile |-> NoPath, artifactFile |-> NoPath, outFile |-> "nil",
     data |-> NoBytes, verr |-> "unset", rc |-> NoBytes,
     hops |-> 0, bearer |-> FALSE, code |-> 0,
     status |-> 0, err |-> "", stages |-> <<>>]

\* A handler that has returned: its locals are gone, the response it gave and
\* the name of the scratch file it made stay on record.
Returned(f) ==
    [IdleFrame EXCEPT !.pc = "done", !.status = f.status, !.err = f.err,
                      !.tmpFile = f.tmpFile]

\* http.Error(w, msg, code) and return: the deferred os.Remove runs first
\* when line 79 was reached.
Fail(f, code, msg) ==
    LET g == [f EXCEPT !.status = code, !.err = msg, !.outFile = "nil"]
    IN  IF f.artifactFile # NoPath
        THEN [g EXCEPT !.pc = "cleanup"]
        ELSE Returned(g)

\* The deployment in place when the service starts: /h/r/s holds one page.
InitFs ==
    LET dirs == {Root, TempDir, <<"/", "h">>, ReposBase, SwiftlinkBase,
                 ReposBase \o <<"/", "s">>}
        page == ReposBase \o <<"/", "s", "/", "i">>
    IN  [p \in dirs \cup {page} |-> IF p = page THEN FileNode(OldIndex) ELSE DirNode]

NoCall ==
    [area |-> "", project |-> <<>>, state |-> "none",
     out |-> [path |-> NoPath, err |-> "nil"]]

Init ==
    /\ fs = InitFs
    /\ frame = [c \in Conns |-> IdleFrame]
    /\ call = NoCall

----------------------------------------------------------------------------
(* deployHandler, one action per step that touches shared state            *)

\* Lines 54-71: method check, JSON decoding, computeFinalPath, for a request
\* whose body, when it decodes, is one of payloads.
ReceiveFrom(c, payloads) ==
    /\ frame[c].pc \in {"idle", "done"}
    /\ \/ frame' = [frame EXCEPT ![c] = Fail(IdleFrame, 405, "only POST allowed")]
       \/ frame' = [frame EXCEPT ![c] = Fail(IdleFrame, 400, "invalid JSON")]
       \/ \E p \in payloads :
             LET r == computeFinalPath(p.Area, p.Project)
             IN  frame' = [frame EXCEPT ![c] =
                     IF r.err # "nil"
                     THEN Fail(IdleFrame, 400, r.err)
                     ELSE [IdleFrame EXCEPT !.pc = "fetch", !.payload = p,
                                            !.dest = r.path,
                                            !.stages = <<"PathResolved">>]]
    /\ UNCHANGED fs

Receive(c) == ReceiveFrom(c, Payloads)

\* downloadArtifact, lines 168-195: the checks, and client.Do sends the GET
\* to the API with the Authorization header set.
Fetch(c) ==
    /\ frame[c].pc = "fetch"
    /\ LET f == frame[c]
           p == f.payload
       IN  frame' = [frame EXCEPT ![c] =
               IF p.GitHubToken = ""
               THEN Fail(f, 500, "failed to download artifact: missing GitHub token")
               ELSE IF p.Owner = "" \/ p.Repo = ""
                    THEN Fail(f, 500, "failed to download artifact: missing owner or repo")
                    ELSE [f EXCEPT !.pc = "await", !.hops = 0, !.bearer = TRUE]]
    /\ UNCHANGED fs

\* AfterResponse that takes every status for a success.
AfterResponseUnchecked(f, StatusCode, Location) ==
    [f EXCEPT !.pc = "create", !.hops = 0, !.bearer = FALSE, !.code = StatusCode]

\* downloadArtifact, lines 201-218, on the response client.Do returned: any
\* status but 200 and 302 is an error; a 302 is followed by hand with
\* http.Get, which sends no Authorization header and whose status is not
\* looked at. The exchange is over when the function goes on to line 221;
\* code is the last status the function tested.
AfterResponse(f, StatusCode, Location) ==
    IF StatusCode # 200 /\ StatusCode # 302
    THEN Fail(f, 500, "failed to download artifact: bad status")
    ELSE IF StatusCode = 302 /\ Location = NoLocation
         THEN Fail(f, 500,
                   "failed to download artifact: artifact redirect location missing")
         ELSE [f EXCEPT !.pc = "create", !.hops = 0, !.bearer = FALSE,
                        !.code = StatusCode]

\* client.Do, lines 189-198, from the arrival of a response. CheckRedirect
\* returns nil for every redirect, so the client itself follows each 302 that
\* names a Location, however many came before. It repeats the Authorization
\* header on a request to the first host and drops it on a request to another
\* host; whether a header once dropped comes back on a later request to the
\* first host depends on the release of net/http. A 302 without Location,
\* like every other status, is handed back to the caller. A transport error
\* ends the call.
Respond(c) ==
    /\ frame[c].pc = "await"
    /\ LET f == frame[c]
       IN  \/ frame' = [frame EXCEPT ![c] =
                  Fail(f, 500, "failed to download artifact: http request failed")]
           \/ \E StatusCode \in StatusCodes, Location \in Locations :
                 /\ StatusCode # 302 => Location = NoLocation
                 /\ IF StatusCode = 302 /\ Location # NoLocation
                    THEN /\ f.hops < MaxRedirects
                         /\ \E auth \in BOOLEAN :
                               /\ auth => Location = "same host"
                               /\ f.bearer /\ Location = "same host" => auth
                               /\ frame' = [frame EXCEPT ![c] =
                                      [f EXCEPT !.hops = @ + 1, !.bearer = auth]]
                    ELSE frame' = [frame EXCEPT ![c] =
                             AfterResponse(f, StatusCode, Location)]
    /\ UNCHANGED fs

\* The name of the scratch file, line 221.
ScratchPath(project) == Join(TempDir, project \o <<".", "z", "i", "p">>)

\* downloadArtifact, lines 221-226: os.Create of the scratch file.
CreateScratch(c) ==
    /\ frame[c].pc = "create"
    /\ LET f == frame[c]
           path == ScratchPath(f.payload.Project)
       IN  IF CreateError(fs, path) # "nil"
           THEN /\ frame' = [frame EXCEPT ![c] =
                       Fail(f, 500, "failed to download artifact: failed to create file")]
                /\ UNCHANGED fs
           ELSE /\ frame' = [frame EXCEPT ![c] =
                       [f EXCEPT !.pc = "copy", !.tmpFile = path, !.outFile = "open"]]
                /\ fs' = Create(fs, path)

\* downloadArtifact, lines 228-232, and the return to line 79: io.Copy
\* streams the response body into the open scratch file, which is then
\* closed. When the copy fails the function returns without removing what
\* it wrote.
CopyBody(c) ==
    /\ frame[c].pc = "copy"
    /\ LET f == frame[c]
       IN  \/ \E body \in Bodies :
                 /\ frame' = [frame EXCEPT ![c] =
                        [f EXCEPT !.pc = "verify", !.artifactFile = f.tmpFile,
                                  !.outFile = "nil", !.code = 0,
                                  !.stages = Append(@, "Fetched")]]
                 /\ fs' = WriteFile(fs, f.tmpFile, f.outFile, body)
           \/ /\ frame' = [frame EXCEPT ![c] =
                     Fail(f, 500, "failed to download artifact: failed to write file")]
              /\ fs' = WriteFile(fs, f.tmpFile, f.outFile, Partial)

\* What os.ReadFile("minisign.pub") finds.
PubKeyFiles == {"missing", TrustedKey, "not a key"}

\* AfterVerify without the return on an error.
AfterVerifyNoReturn(f, bytes, e) ==
    [f EXCEPT !.pc = "remove", !.data = bytes, !.verr = e,
              !.stages = Append(@, "Verified")]

\* AfterVerify that answers a failed verification like any other failure.
AfterVerifyServerError(f, bytes, e) ==
    IF e # "nil"
    THEN Fail([f EXCEPT !.data = bytes, !.verr = e], 500,
              "signature verification failed")
    ELSE [f EXCEPT !.pc = "remove", !.data = bytes, !.verr = e,
                   !.stages = Append(@, "Verified")]

\* The handler's reaction to the result of verifySignature, lines 87-90.
AfterVerify(f, bytes, e) ==
    IF e # "nil"
    THEN Fail([f EXCEPT !.data = bytes, !.verr = e], 403,
              "signature verification failed")
    ELSE [f EXCEPT !.pc = "remove", !.data = bytes, !.verr = e,
                   !.stages = Append(@, "Verified")]

\* Lines 82-90: the public key is read, then verifySignature reads the file
\* it is given and checks the signature over its bytes.
Verify(c) ==
    /\ frame[c].pc = "verify"
    /\ \E pubKey \in PubKeyFiles :
          LET f == frame[c]
              readable == IsFile(fs, f.artifactFile)
              bytes == IF readable THEN fs[f.artifactFile].bytes ELSE NoBytes
              e == IF readable
                   THEN verifySignature(bytes, f.payload.Signature, pubKey)
                   ELSE "no such file or directory"
          IN  frame' = [frame EXCEPT ![c] =
                  IF pubKey = "missing"
                  THEN Fail(f, 500, "missing public key")
                  ELSE AfterVerify(f, bytes, e)]
    /\ UNCHANGED fs

\* The steps from os.RemoveAll(dest) to the end of extractTarGzFromZip.
ApplyPcs == {"remove", "mkdir", "unzip", "createdest", "copydest"}

\* RemoveOld under a lock on the target: it waits while another handler is
\* in its apply steps on the same path.
RemoveOldExclusive(c) ==
    /\ frame[c].pc = "remove"
    /\ \A d \in Conns \ {c} :
          ~(frame[d].dest = frame[c].dest /\ frame[d].pc \in ApplyPcs \ {"remove"})
    /\ LET f == frame[c]
       IN  \/ /\ fs' = RemoveAll(fs, f.dest)
              /\ frame' = Unlinked([frame EXCEPT ![c] =
                              [f EXCEPT !.pc = "mkdir",
                                        !.stages = Append(@, "Removed")]],
                                   RemoveAll(fs, f.dest))
           \/ /\ frame' = [frame EXCEPT ![c] =
                     Fail(f, 500, "failed to remove old project folder")]
              /\ UNCHANGED fs

\* Lines 93-96: os.RemoveAll(dest).
RemoveOld(c) ==
    /\ frame[c].pc = "remove"
    /\ LET f == frame[c]
       IN  \/ /\ fs' = RemoveAll(fs, f.dest)
              /\ frame' = Unlinked([frame EXCEPT ![c] =
                              [f EXCEPT !.pc = "mkdir",
                                        !.stages = Append(@, "Removed")]],
                                   RemoveAll(fs, f.dest))
           \/ /\ frame' = [frame EXCEPT ![c] =
                     Fail(f, 500, "failed to remove old project folder")]
              /\ UNCHANGED fs

\* Lines 99-102: os.MkdirAll(dest, 0755).
Recreate(c) ==
    /\ frame[c].pc = "mkdir"
    /\ LET f == frame[c]
       IN  IF MkdirAllFails(fs, f.dest)
           THEN /\ frame' = [frame EXCEPT ![c] =
                       Fail(f, 500, "failed to create project folder")]
                /\ UNCHANGED fs
           ELSE /\ frame' = [frame EXCEPT ![c] =
                       [f EXCEPT !.pc = "unzip", !.stages = Append(@, "Recreated")]]
                /\ fs' = MkdirAll(fs, f.dest)

\* extractTarGzFromZip, lines 116-128: the zip is opened and its entries are
\* scanned for the tarball.
OpenZip(c) ==
    /\ frame[c].pc = "unzip"
    /\ LET f == frame[c]
           readable == IsFile(fs, f.artifactFile)
           bytes == IF readable THEN fs[f.artifactFile].bytes ELSE NoBytes
           i == IF bytes.fmt = "zip" THEN FirstTarGz(bytes.entries, 1) ELSE 0
       IN  frame' = [frame EXCEPT ![c] =
               IF ~readable
               THEN Fail(f, 500, "failed to extract artifact: no such file or directory")
               ELSE IF bytes.fmt # "zip"
                    THEN Fail(f, 500, "failed to extract artifact: not a valid zip file")
                    ELSE IF i = 0
                         THEN Fail(f, 500, "failed to extract artifact: .tar.gz not found in ZIP")
                         ELSE [f EXCEPT !.pc = "createdest", !.rc = bytes.entries[i].body]]
    /\ UNCHANGED fs

\* extractTarGzFromZip, lines 130-134: os.Create(destPath), and destPath is
\* the target path itself.
CreateDest(c) ==
    /\ frame[c].pc = "createdest"
    /\ LET f == frame[c]
           e == CreateError(fs, f.dest)
       IN  IF e # "nil"
           THEN /\ frame' = [frame EXCEPT ![c] =
                       Fail(f, 500, "failed to extract artifact: " \o e)]
                /\ UNCHANGED fs
           ELSE /\ frame' = [frame EXCEPT ![c] =
                       [f EXCEPT !.pc = "copydest", !.outFile = "open"]]
                /\ fs' = Create(fs, f.dest)

\* extractTarGzFromZip, lines 136-140, and lines 110-111: the entry is copied
\* into the open file and the handler answers "success".
CopyDest(c) ==
    /\ frame[c].pc = "copydest"
    /\ LET f == frame[c]
       IN  /\ frame' = [frame EXCEPT ![c] =
                  [f EXCEPT !.pc = "cleanup", !.outFile = "nil", !.status = 200,
                            !.err = "success", !.stages = Append(@, "Unwrapped")]]
           /\ fs' = WriteFile(fs, f.dest, f.outFile, f.rc)

\* Line 79: the deferred os.Remove(artifactFile), run as the handler returns.
Cleanup(c) ==
    /\ frame[c].pc = "cleanup"
    /\ LET f == frame[c]
       IN  /\ fs' = Remove(fs, f.artifactFile)
           /\ frame' = Unlinked([frame EXCEPT ![c] = Returned(f)],
                                Remove(fs, f.artifactFile))

\* The steps of one handler after the request is read.
Proceed(c) ==
    \/ Fetch(c)
    \/ Respond(c)
    \/ CreateScratch(c)
    \/ CopyBody(c)
    \/ Verify(c)
    \/ RemoveOld(c)
    \/ Recreate(c)
    \/ OpenZip(c)
    \/ CreateDest(c)
    \/ CopyDest(c)
    \/ Cleanup(c)

Next ==
    \E c \in Conns :
        \/ Receive(c) /\ UNCHANGED call
        \/ Fetch(c) /\ UNCHANGED call
        \/ Respond(c) /\ UNCHANGED call
        \/ CreateScratch(c) /\ UNCHANGED call
        \/ CopyBody(c) /\ UNCHANGED call
        \/ Verify(c) /\ UNCHANGED call
        \/ RemoveOld(c) /\ UNCHANGED call
        \/ Recreate(c) /\ UNCHANGED call
        \/ OpenZip(c) /\ UNCHANGED call
        \/ CreateDest(c) /\ UNCHANGED call
        \/ CopyDest(c) /\ UNCHANGED call
        \/ Cleanup(c) /\ UNCHANGED call

Spec == Init /\ [][Next]_vars

----------------------------------------------------------------------------
(* computeFinalPath applied to every short project string                  *)

MaxProjLen == 5

PathChars == {"/", ".", "r", "2"}

RECURSIVE StringsUpTo(_)
StringsUpTo(n) ==
    IF n = 0
    THEN {<<>>}
    ELSE LET shorter == StringsUpTo(n - 1)
         IN  shorter \cup {Append(s, c) : s \in {t \in shorter : Len(t) = n - 1},
                                          c \in PathChars}

AreaNames == {"repos", "swiftlink", "backup"}

InitPath ==
    /\ fs = InitFs
    /\ frame = [c \in Conns |-> IdleFrame]
    /\ call \in [area : AreaNames, project : StringsUpTo(MaxProjLen),
                    state : {"pending"}, out : {[path |-> NoPath, err |-> "nil"]}]

Resolve ==
    /\ call.state = "pending"
    /\ call' = [call EXCEPT !.state = "returned",
                            !.out = computeFinalPath(call.area, call.project)]
    /\ UNCHANGED <<fs, frame>>

NextPath == Resolve

SpecPath == InitPath /\ [][NextPath]_vars

----------------------------------------------------------------------------
(* One connection, requests handled one after the other                    *)

\* The connection that sends the requests.
Solo == "c1"

\* The handlings the history keeps (and the requests the connection sends).
MaxRuns == 2

\* "s", "" (the field left out), "../r2" and "../..".
SeqProjects ==
    {SiteProject, <<>>, <<".", ".", "/", "r", "2">>, <<".", ".", "/", ".", ".">>}

SeqPayloads ==
    [Area : {"repos", "backup"}, Project : SeqProjects, Owner : {"winlogon"},
     Repo : {"minechat"}, GitHubToken : {"ghx"},
     Signature : {SignatureOver(GoodZip), SignatureOver(PlainZip)}]

\* The deployment of InitFs with a directory in it (foo/bar.html in the
\* README), and a directory beside the area's base with a page of its own.
SeqFs ==
    LET sub == ReposBase \o <<"/", "s", "/", "d">>
        deep == sub \o <<"/", "i">>
        beside == ReposBase \o <<"2">>
        other == beside \o <<"/", "i">>
    IN  [p \in (DOMAIN InitFs) \cup {sub, deep, beside, other} |->
            IF p \in DOMAIN InitFs THEN InitFs[p]
            ELSE IF p \in {sub, beside} THEN DirNode
            ELSE FileNode(OldIndex)]

NoHistory == [state |-> "history", runs |-> <<>>]

InitSeq ==
    /\ fs = SeqFs
    /\ frame = [c \in Conns |-> IdleFrame]
    /\ call = NoHistory

\* What is on record of a handling once it has returned: the request, the
\* bytes it verified and the result, the response, the tree it left at its
\* target.
RunOf(c) ==
    [payload |-> frame[c].payload, data |-> frame[c].data,
     verr |-> frame[c].verr, status |-> frame'[c].status, err |-> frame'[c].err,
     tree |-> IF frame[c].dest = NoPath THEN <<>> ELSE Tree(fs', frame[c].dest)]

\* The history: a handling is added as its handler returns.
Recorded(c) ==
    call' = IF frame'[c].pc = "done"
            THEN [call EXCEPT !.runs = Append(@, RunOf(c))]
            ELSE call

\* CopyDest is left out: a handler running alone finds the directory it has
\* just made at dest, so os.Create(dest) fails and line 136 is not reached.
NextSeq ==
    \/ /\ Len(call.runs) < MaxRuns
       /\ ReceiveFrom(Solo, SeqPayloads)
       /\ Recorded(Solo)
    \/ Fetch(Solo) /\ Recorded(Solo)
    \/ Respond(Solo) /\ Recorded(Solo)
    \/ CreateScratch(Solo) /\ Recorded(Solo)
    \/ CopyBody(Solo) /\ Recorded(Solo)
    \/ Verify(Solo) /\ Recorded(Solo)
    \/ RemoveOld(Solo) /\ Recorded(Solo)
    \/ Recreate(Solo) /\ Recorded(Solo)
    \/ OpenZip(Solo) /\ Recorded(Solo)
    \/ CreateDest(Solo) /\ Recorded(Solo)
    \/ Cleanup(Solo) /\ Recorded(Solo)

SpecSeq == InitSeq /\ [][NextSeq]_vars

----------------------------------------------------------------------------
(* extractTarGz applied to every short tarball                             *)

\* The entries of a tarball.
MaxEntries == 2

\* "d", "d/i", "../x" and "/a".
EntryNames ==
    {<<"d">>, <<"d", "/", "i">>, <<".", ".", "/", "x">>, <<"/", "a">>}

Typeflags == {"dir", "reg", "symlink"}

Headers ==
    [Name : EntryNames, Typeflag : Typeflags, body : {Raw("new index")}]

RECURSIVE SeqsUpTo(_, _)
SeqsUpTo(S, n) ==
    IF n = 0
    THEN {<<>>}
    ELSE LET shorter == SeqsUpTo(S, n - 1)
         IN  shorter \cup {Append(t, x) : t \in {u \in shorter : Len(u) = n - 1},
                                          x \in S}

Tarballs == {[fmt |-> "targz", entries |-> es] : es \in SeqsUpTo(Headers, MaxEntries)}

\* The file the function is given and the directory it extracts to.
TarFile == TempDir \o <<"/", "t">>
TarDest == ReposBase \o <<"/", "s">>

InitTar ==
    /\ \E t \in Tarballs :
          fs = [p \in (DOMAIN InitFs) \cup {TarFile} |->
                   IF p = TarFile THEN FileNode(t) ELSE InitFs[p]]
    /\ frame = [c \in Conns |-> IdleFrame]
    /\ call = [state |-> "pending", file |-> TarFile, dest |-> TarDest, err |-> "nil"]

\* One call of extractTarGz(file, dest).
Extract ==
    /\ call.state = "pending"
    /\ LET r == extractTarGz(fs, call.file, call.dest)
       IN  /\ fs' = r.fs
           /\ call' = [call EXCEPT !.state = "returned", !.err = r.err]
    /\ UNCHANGED frame

NextTar == Extract

SpecTar == InitTar /\ [][NextTar]_vars

----------------------------------------------------------------------------
(* Properties                                                              *)

Range(s) == {s[i] : i \in DOMAIN s}

IsPrefix(s, t) == Len(s) <= Len(t) /\ SubSeq(t, 1, Len(s)) = s

InFlight(c) == frame[c].pc \notin {"idle", "done"}

\* The step is one of handler c.
Acted(c) == frame'[c].pc # frame[c].pc

\* The step changes the tree at the target path of handler c.
TargetChanged(c) == Tree(fs', frame[c].dest) # Tree(fs, frame[c].dest)

\* The tree at dest after a clean deployment of the tarball.
DeployedTree(dest, targz) ==
    Tree(ExtractEntries(MkdirAll(RemoveAll(fs, dest), dest), targz.entries, dest).fs,
         dest)

C2_SignedBytesAreTheTarball ==
    \A c \in Conns :
        frame[c].verr = "nil"
            => /\ frame[c].data.fmt = "targz"
               /\ (frame[c].rc # NoBytes => frame[c].rc = frame[c].data)

\* The stages of a request in the order the claim gives them.
StageOrder ==
    <<"PathResolved", "Fetched", "Unwrapped", "Verified", "Removed",
      "Recreated", "Unpacked">>

\* C3: the stages a request has completed are always an initial part of the
\* fixed order (resolve, fetch, unwrap, verify, remove, recreate, unpack),
\* and a request that answers success has completed them all.
C3_StagesInOrder ==
    \A c \in Conns :
        InFlight(c)
            => /\ IsPrefix(frame[c].stages, StageOrder)
               /\ (frame[c].status = 200 => frame[c].stages = StageOrder)

\* The errors of the stages before the Deploy Applier.
PreApplierErrors ==
    {"only POST allowed", "invalid JSON", ErrUnknownArea, ErrEscape,
     "failed to download artifact: missing GitHub token",
     "failed to download artifact: missing owner or repo",
     "failed to download artifact: http request failed",
     "failed to download artifact: bad status",
     "failed to download artifact: artifact redirect location missing",
     "failed to download artifact: failed to create file",
     "failed to download artifact: failed to write file",
     "failed to extract artifact: no such file or directory",
     "failed to extract artifact: not a valid zip file",
     "failed to extract artifact: .tar.gz not found in ZIP",
     "missing public key",
     "signature verification failed"}

\* C4: a request that fails at a stage before the Deploy Applier (parse,
\* path resolution, fetch, container unwrap with "payload not found",
\* verification) has neither removed nor recreated its target.
C4_EarlyFailureLeavesTarget ==
    \A c \in Conns :
        (InFlight(c) /\ frame[c].err \in PreApplierErrors)
            => /\ "Removed" \notin Range(frame[c].stages)
               /\ "Recreated" \notin Range(frame[c].stages)

\* C5: when a handler has answered 200 "success", its target path is a
\* directory that holds exactly the contents of the artifact's tarball.
C5_SuccessMeansDeployed ==
    \A c \in Conns :
        (frame[c].pc = "cleanup" /\ frame[c].status = 200)
            => /\ IsDir(fs, frame[c].dest)
               /\ Tree(fs, frame[c].dest) = DeployedTree(frame[c].dest, frame[c].rc)

\* The errors that come from the environment, not from the request.
IOFaults ==
    {"failed to download artifact: http request failed",
     "failed to download artifact: failed to write file",
     "missing public key",
     "failed to remove old project folder"}

\* C6: a request handled alone, with a known area, a contained project, a
\* fetched container that holds a tarball, a signature the verifier accepts
\* and no I/O error, answers 200 "success" and leaves the tarball's contents
\* at the target path.
C6_GoodRequestSucceeds ==
    \A c \in Conns :
        ( /\ \A d \in Conns \ {c} : frame[d].pc = "idle"
          /\ frame[c].pc = "cleanup"
          /\ frame[c].verr = "nil"
          /\ frame[c].data = GoodZip
          /\ frame[c].err \notin IOFaults )
            => /\ frame[c].status = 200
               /\ IsDir(fs, frame[c].dest)
               /\ Tree(fs, frame[c].dest) = DeployedTree(frame[c].dest, SiteTarGz)

\* C7: a path that computeFinalPath returns is the base directory of the
\* area or lies below it, by path elements.
C7_PathContained ==
    (call.state = "returned" /\ call.out.err = "nil")
        => IsWithin(call.out.path, areas[call.area])

InBaseOrPrefixSibling(p, base) ==
    LET pe == Elements(p)
        be == Elements(base)
        n == Len(be)
    IN  /\ Len(pe) >= n
        /\ SubSeq(pe, 1, n - 1) = SubSeq(be, 1, n - 1)
        /\ HasPrefix(pe[n], be[n])

\* The elements of a project other than ".".
Names(project) == SelectSeq(Elements(project), LAMBDA e : e # Dot)

C9_ScratchNotShared ==
    /\ \A c, d \in Conns :
          (c # d /\ InFlight(c) /\ InFlight(d) /\ frame[c].tmpFile # NoPath)
              => frame[c].tmpFile # frame[d].tmpFile
    /\ \A c \in Conns :
          frame[c].rc # NoBytes
              => /\ frame[c].data.fmt = "zip"
                 /\ FirstTarGz(frame[c].data.entries, 1) # 0
                 /\ frame[c].rc =
                        frame[c].data.entries[FirstTarGz(frame[c].data.entries, 1)].body

\* C10: when a handler has returned, the scratch file it created is gone.
C10_ScratchRemoved ==
    \A c \in Conns :
        (frame[c].pc = "done" /\ frame[c].tmpFile # NoPath)
            => ~Exists(fs, frame[c].tmpFile)

\* A stage has failed in handler c: an error response has been written.
Failed(c) == frame[c].status \notin {0, 200}

\* The request of handler c names a known area and a project that stays at or
\* below the area's base.
RequestContained(c) ==
    LET p == frame[c].payload
    IN  /\ p.Area \in DOMAIN areas
        /\ IsWithin(Join(areas[p.Area], p.Project), areas[p.Area])

\* After the error response a handler only has its deferred removal left.
FailedOnlyCleansUp(c) == Failed(c) => frame[c].pc \in {"cleanup", "done"}

\* C11: once a stage of a request has failed, the handler does nothing more
\* than its deferred removal of the scratch file (no fetch, verification,
\* removal, creation or extraction follows the error response); and only a
\* request with a known area and a project that does not escape the base
\* gets as far as the network fetch.
C11_ShortCircuit ==
    \A c \in Conns :
        /\ FailedOnlyCleansUp(c)
        /\ InFlight(c) => RequestContained(c)

\* The error messages by the stage that fails.
ClientErrors == {"only POST allowed", "invalid JSON", ErrUnknownArea, ErrEscape}

FetchErrors ==
    {"failed to download artifact: missing GitHub token",
     "failed to download artifact: missing owner or repo",
     "failed to download artifact: http request failed",
     "failed to download artifact: bad status",
     "failed to download artifact: artifact redirect location missing",
     "failed to download artifact: failed to create file",
     "failed to download artifact: failed to write file"}

UnwrapErrors ==
    {"failed to extract artifact: no such file or directory",
     "failed to extract artifact: not a valid zip file",
     "failed to extract artifact: .tar.gz not found in ZIP"}

ApplierErrors ==
    {"failed to remove old project folder", "failed to create project folder",
     "failed to extract artifact: is a directory",
     "failed to extract artifact: not a directory"}

VerifierErrors ==
    {"no such file or directory", "invalid base64 signature", "invalid public key",
     "invalid signature format", "signature verification error",
     "signature verification failed"}

\* The stages of the handler as main.go runs them.
CodeStages ==
    <<"PathResolved", "Fetched", "Verified", "Removed", "Recreated", "Unwrapped">>

\* C12: the status of the response follows from the stage that failed: 4xx
\* for a wrong method, malformed JSON, an unknown area or a path escape; 5xx
\* for a fetch failure, a container failure and a failure to remove, create
\* or extract; 403 for every error of the signature verifier and for nothing
\* else; 200 "success" only after every stage of the handler succeeded.
C12_StatusByFailingStage ==
    \A c \in Conns :
        frame[c].status # 0 =>
            /\ frame[c].err \in ClientErrors => frame[c].status \in 400..499
            /\ frame[c].err \in FetchErrors \cup UnwrapErrors \cup ApplierErrors
                  => frame[c].status \in 500..599
            /\ frame[c].verr \in VerifierErrors => frame[c].status = 403
            /\ frame[c].status = 403
                  => /\ frame[c].err = "signature verification failed"
                     /\ frame[c].pc = "cleanup" => frame[c].verr \in VerifierErrors
            /\ frame[c].status = 200
                  => /\ frame[c].err = "success"
                     /\ frame[c].pc = "cleanup"
                           => /\ frame[c].stages = CodeStages
                              /\ frame[c].verr = "nil"
            /\ frame[c].err \in ClientErrors \cup FetchErrors \cup UnwrapErrors
                                \cup ApplierErrors
                                \cup {"missing public key", "success",
                                      "signature verification failed"}

\* A signature made over other bytes than the fetched file was answered 403.
C12_Witness ==
    \E c \in Conns :
        /\ frame[c].pc = "cleanup"
        /\ frame[c].verr = "signature verification error"
        /\ frame[c].status = 403

\* The errors of a fetch whose last response is not a 200.
BadStatusErrors ==
    {"failed to download artifact: bad status",
     "failed to download artifact: artifact redirect location missing"}

\* C13: a download whose last response (from the API, or from the URL a 302
\* led to) has another status than 200 fails: the body of such a response is
\* never written to a scratch file, the handler answers 500 and returns at
\* once, and it has created no scratch file and changed nothing in the file
\* system, its target included.
C13_BadStatusFailsClean ==
    [][\A c \in Conns :
          /\ frame[c].pc \in {"create", "copy"} => frame[c].code = 200
          /\ (frame[c].pc = "await" /\ frame'[c].err \in BadStatusErrors)
                => /\ frame'[c].status = 500
                   /\ frame'[c].pc = "done"
                   /\ frame[c].tmpFile = NoPath
                   /\ frame[c].stages = <<"PathResolved">>
                   /\ fs' = fs]_vars

\* A handler has returned with a bad status from the host, before any other
\* request was handled: no scratch file, the old deployment in place.
C13_Witness ==
    \E c \in Conns :
        /\ frame[c].pc = "done"
        /\ frame[c].err = "failed to download artifact: bad status"
        /\ frame[c].status = 500
        /\ ~Exists(fs, ScratchPath(SiteProject))
        /\ fs = InitFs

\* C14: in one fetch the client follows at most one redirect, and the request
\* it sends to the redirect's Location carries no Authorization header.
C14_OneUnauthenticatedRedirect ==
    \A c \in Conns :
        /\ frame[c].hops <= 1
        /\ frame[c].hops = 1 => ~frame[c].bearer

\* C15: when the handler's apply steps have completed (it answers success),
\* the target is a directory that holds every directory and regular file of
\* the tarball at its relative path with its bytes, nothing for a symlink or
\* special entry, and nothing else: nothing of what was there before.
C15_TargetHoldsTarballEntries ==
    \A c \in Conns :
        (frame[c].pc = "cleanup" /\ frame[c].status = 200)
            => LET dest == frame[c].dest
                   tarball == frame[c].rc
                   At(e) == Join(dest, e.Name)
                   Kept(e) == e.Typeflag \in {"dir", "reg"}
               IN  /\ tarball.fmt = "targz"
                   /\ IsDir(fs, dest)
                   /\ \A e \in Range(tarball.entries) :
                         /\ e.Typeflag = "dir" => IsDir(fs, At(e))
                         /\ e.Typeflag = "reg"
                               => IsFile(fs, At(e)) /\ fs[At(e)].bytes = e.body
                         /\ ~Kept(e) => ~Exists(fs, At(e))
                   /\ \A q \in DOMAIN Tree(fs, dest) :
                         \/ q = dest
                         \/ \E e \in Range(tarball.entries) : Kept(e) /\ At(e) = q

\* Two handlings, one right after the other, of the same request with the
\* same bytes fetched and verified, neither hit by an I/O fault.
SameValidRequest(a, b) ==
    /\ a.payload # NoPayload
    /\ a.payload = b.payload
    /\ a.data = b.data
    /\ a.verr = "nil" /\ b.verr = "nil"
    /\ a.err \notin IOFaults /\ b.err \notin IOFaults

\* C16: when the same valid request is handled twice in succession, the tree
\* at the target after the second handling is the tree after the first.
C16_SecondRunSameTree ==
    \A i \in 1..(Len(call.runs) - 1) :
        SameValidRequest(call.runs[i], call.runs[i + 1])
            => call.runs[i + 1].tree = call.runs[i].tree

\* The request for "s" was handled twice in succession over the old
\* deployment, and both handlings left the same tree.
C16_Witness ==
    \E i \in 1..(Len(call.runs) - 1) :
        /\ SameValidRequest(call.runs[i], call.runs[i + 1])
        /\ call.runs[i].payload.Project = SiteProject
        /\ call.runs[i].tree # Tree(SeqFs, ReposBase \o <<"/", "s">>)
        /\ call.runs[i + 1].tree = call.runs[i].tree

\* The apply step handler c is about to take.
ApplyStep(c) ==
    \/ RemoveOld(c)
    \/ Recreate(c)
    \/ OpenZip(c)
    \/ CreateDest(c)
    \/ CopyDest(c)

\* C17: no lock guards the apply steps: a handler that has reached one of
\* them (removal, recreation, extraction) can take it at once, also while
\* another handler is in the middle of its own apply steps on the same
\* target.
C17_ApplyStepsNeverWait ==
    \A c \in Conns : frame[c].pc \in ApplyPcs => ENABLED ApplyStep(c)

\* Two handlers with the same target have both finished their apply steps,
\* one of them with success, which it can only reach when the other's
\* removal falls between its MkdirAll and its os.Create; the target holds
\* the deployment of neither: it is a regular file.
C17_Witness ==
    \E c, d \in Conns :
        /\ c # d
        /\ frame[c].pc = "cleanup" /\ frame[d].pc = "cleanup"
        /\ frame[c].dest = frame[d].dest
        /\ "Removed" \in Range(frame[c].stages)
        /\ "Removed" \in Range(frame[d].stages)
        /\ frame[c].status = 200
        /\ IsFile(fs, frame[c].dest)
        /\ Tree(fs, frame[c].dest) # DeployedTree(frame[c].dest, frame[c].rc)

\* C18: when extractTarGzFromZip has returned for a container the handler
\* verified, it failed with "not found" exactly when no entry's name ends in
\* ".tar.gz"; otherwise it wrote the bytes of the first such entry, in stored
\* order, to a new file that is not the target path.
C18_FirstTarGzToNewFile ==
    \A c \in Conns :
        ( /\ frame[c].pc = "cleanup"
          /\ "Recreated" \in Range(frame[c].stages)
          /\ frame[c].data.fmt = "zip" )
            => LET entries == frame[c].data.entries
                   i == FirstTarGz(entries, 1)
               IN  /\ (frame[c].err = "failed to extract artifact: .tar.gz not found in ZIP")
                          <=> i = 0
                   /\ i # 0 => /\ "Unwrapped" \in Range(frame[c].stages)
                               /\ frame[c].rc = entries[i].body
                               /\ ~IsFile(fs, frame[c].dest)

\* C19: whatever extractTarGz creates or writes lies at or below dest, for
\* every entry name, names with ".." elements and absolute names included.
C19_ExtractionStaysBelowDest ==
    [][\A q \in DOMAIN fs' :
          (q \notin DOMAIN fs \/ fs'[q] # fs[q]) => IsWithin(q, call.dest)]_vars

\* The target paths computeFinalPath accepts for the requests of SeqPayloads.
AcceptedTargets ==
    {computeFinalPath(p.Area, p.Project).path :
        p \in {q \in SeqPayloads : computeFinalPath(q.Area, q.Project).err = "nil"}}

\* C20: a step of a handler leaves the tree at every other accepted target
\* path as it was: deployments to different resolved paths do not touch
\* each other.
C20_OtherTargetsUntouched ==
    [][\A c \in Conns, t \in AcceptedTargets :
          (frame[c].dest # NoPath /\ t # frame[c].dest /\ Acted(c))
              => Tree(fs', t) = Tree(fs, t)]_vars

====
